---- MODULE Spec2Model ----
(***************************************************************************)
(* Inline patterns of Python-Markdown (markdown/inlinepatterns.py).        *)
(*                                                                         *)
(* A buffer is a sequence of one-character strings.  Python indices are    *)
(* 0-based; data[pos] of the source is At(data, pos) here.  Every handler  *)
(* is one action: it reads the buffer at a position where its pattern      *)
(* matches and stores what handleMatch returns in the variable result.     *)
(***************************************************************************)
EXTENDS Integers, Sequences, FiniteSets, TLC

VARIABLES
    data,            \* the text buffer under analysis
    references,      \* md.references: a set of [id, href, title]
    ESCAPED_CHARS,   \* md.ESCAPED_CHARS: the configured escapable set
    inlinePatterns,  \* the registry build_inlinepatterns returns (<<>> before)
    result           \* what the last handleMatch call returned

vars == <<data, references, ESCAPED_CHARS, inlinePatterns, result>>

----------------------------------------------------------------------------
(* Characters and Python's string primitives                               *)

DQ == "\""
SQ == "'"
SP == " "
NL == "\n"
BS == "\\"
BANG == "!"
\* The backquote, which a TLA+ string cannot hold.
BACKTICK == "BACKTICK"

\* The characters regex \s and str.strip() treat as whitespace.
Whitespace == {SP, NL, "\t"}

\* Python's None where a string or a character is expected.
None == "None"

\* An optional value: None, or a value.
Nothing == [some |-> FALSE, val |-> <<>>]
Some(v) == [some |-> TRUE, val |-> v]

\* data[pos], 0-based; "" past the end (the callers test the range first).
At(s, pos) == IF pos >= 0 /\ pos < Len(s) THEN s[pos + 1] ELSE ""

\* Python's s[i:j]: a negative index counts from the end, both are clamped.
PyIndex(s, i) ==
    LET k == IF i < 0 THEN i + Len(s) ELSE i
    IN  IF k < 0 THEN 0 ELSE IF k > Len(s) THEN Len(s) ELSE k

Slice(s, i, j) == SubSeq(s, PyIndex(s, i) + 1, PyIndex(s, j))

RECURSIVE LStrip(_)
LStrip(s) ==
    IF s # <<>> /\ Head(s) \in Whitespace THEN LStrip(Tail(s)) ELSE s

RECURSIVE RStrip(_)
RStrip(s) ==
    IF s # <<>> /\ s[Len(s)] \in Whitespace
    THEN RStrip(SubSeq(s, 1, Len(s) - 1)) ELSE s

\* str.strip()
Strip(s) == RStrip(LStrip(s))

\* The first position >= pos whose character is not whitespace (regex \s*).
RECURSIVE SkipWhitespace(_, _)
SkipWhitespace(s, pos) ==
    IF pos < Len(s) /\ At(s, pos) \in Whitespace
    THEN SkipWhitespace(s, pos + 1) ELSE pos

\* The first position >= pos whose character is in stop; Len(s) if none.
RECURSIVE FindFirst(_, _, _)
FindFirst(s, pos, stop) ==
    IF pos >= Len(s) \/ At(s, pos) \in stop THEN pos
    ELSE FindFirst(s, pos + 1, stop)

\* Pattern.unescape: replaces inline placeholders by the stashed text.  No
\* buffer of this model holds a placeholder (STX is not in any alphabet of
\* the inputs), and INLINE_PLACEHOLDER_RE.sub leaves such text unchanged.
unescape(text) == text

----------------------------------------------------------------------------
(* dequote and the title clean-up                                          *)

dequote(string) ==
    IF Len(string) >= 1
       /\ \/ (string[1] = DQ /\ string[Len(string)] = DQ)
          \/ (string[1] = SQ /\ string[Len(string)] = SQ)
    THEN Slice(string, 1, -1)
    ELSE string

\* RE_TITLE_CLEAN.sub with newlines and tabs left as they are.
RE_TITLE_CLEAN_keep(s) == s

\* RE_TITLE_CLEAN.sub(' ', s) with RE_TITLE_CLEAN = \s: every whitespace
\* character becomes one space.
RE_TITLE_CLEAN_sub(s) ==
    [i \in 1..Len(s) |-> IF s[i] \in Whitespace THEN SP ELSE s[i]]

----------------------------------------------------------------------------
(* LinkInlineProcessor.getText                                             *)

RECURSIVE getTextLoop(_, _, _, _)
getTextLoop(d, pos, bracket_count, text) ==
    IF pos >= Len(d)
    THEN [text |-> text, index |-> pos, handled |-> bracket_count = 0]
    ELSE LET c == At(d, pos)
             bc == IF c = "]" THEN bracket_count - 1
                   ELSE IF c = "[" THEN bracket_count + 1
                   ELSE bracket_count
         IN  IF bc = 0
             THEN [text |-> text, index |-> pos + 1, handled |-> TRUE]
             ELSE getTextLoop(d, pos + 1, bc, Append(text, c))

\* getText that stops at the first closing bracket, whatever the depth.
getTextFirst(d, index) ==
    [text |-> Slice(d, index, FindFirst(d, index, {"]"})),
     index |-> IF FindFirst(d, index, {"]"}) < Len(d)
               THEN FindFirst(d, index, {"]"}) + 1
               ELSE Len(d),
     handled |-> FindFirst(d, index, {"]"}) < Len(d)]

\* LinkInlineProcessor.getText
getText(d, index) == getTextLoop(d, index, 1, <<>>)

----------------------------------------------------------------------------
(* LinkInlineProcessor.RE_LINK.match(data, pos=index): an opening paren,   *)
(* whitespace, then optionally all of: an angle-bracketed group 1 with no  *)
(* angle bracket inside, whitespace, an optional quoted group 2 followed   *)
(* by whitespace, and a closing paren.                                     *)

\* A group that took no part in the match is <<>> (falsy, as None is).
NoMatch == [matched |-> FALSE, group1 |-> <<>>, group2 |-> <<>>, end |-> -1]

\* After group 1 = d[p1..p2] and the whitespace up to p3: a quoted group 2
\* from p3 to p4 with a closing paren at p5, or a closing paren at p3.
RE_LINK_title(d, bare, p1, p2, p3, p4, p5) ==
    IF At(d, p3) \in {SQ, DQ} /\ At(d, p4) = At(d, p3) /\ At(d, p5) = ")"
    THEN [matched |-> TRUE, group1 |-> Slice(d, p1, p2 + 1),
          group2 |-> Slice(d, p3, p4 + 1), end |-> p5 + 1]
    ELSE IF At(d, p3) = ")"
    THEN [matched |-> TRUE, group1 |-> Slice(d, p1, p2 + 1),
          group2 |-> <<>>, end |-> p3 + 1]
    ELSE bare

RE_LINK_quote(d, bare, p1, p2, p3, p4) ==
    RE_LINK_title(d, bare, p1, p2, p3, p4, SkipWhitespace(d, p4 + 1))

\* Group 1 runs from "<" at p1 to the first angle bracket after it, p2,
\* which must be ">".
RE_LINK_angle(d, bare, p1, p2, p3) ==
    IF At(d, p1) # "<" \/ At(d, p2) # ">" THEN bare
    ELSE RE_LINK_quote(d, bare, p1, p2, p3, FindFirst(d, p3 + 1, {At(d, p3)}))

RE_LINK_group(d, p1, p2) ==
    RE_LINK_angle(d, [matched |-> TRUE, group1 |-> <<>>, group2 |-> <<>>,
                      end |-> p1],
                  p1, p2, SkipWhitespace(d, p2 + 1))

RE_LINK_open(d, p1) == RE_LINK_group(d, p1, FindFirst(d, p1 + 1, {"<", ">"}))

RE_LINK_match(d, index) ==
    IF At(d, index) # "(" THEN NoMatch
    ELSE RE_LINK_open(d, SkipWhitespace(d, index + 1))

----------------------------------------------------------------------------
(* LinkInlineProcessor.getLink                                            *)

\* The locals of getLink as the scan of a bare target starts.  steps counts
\* the iterations of the loop and fallback records that the code after the
\* loop closed the link; neither is read by the scan.
ScanInit(start_index) ==
    [bracket_count |-> 1, backtrack_count |-> 1, index |-> start_index,
     last_bracket |-> -1,
     quote |-> None, start_quote |-> -1, exit_quote |-> -1,
     ignore_matches |-> FALSE,
     alt_quote |-> None, start_alt_quote |-> -1, exit_alt_quote |-> -1,
     last |-> "", href |-> <<>>, title |-> Nothing,
     steps |-> 0, fallback |-> FALSE, visited |-> <<>>, depths |-> <<>>]

\* ScanChar with the nested "(" left uncounted.
ScanCharFlat(st, c) ==
    IF c = ")" /\ ~st.ignore_matches
    THEN [st EXCEPT !.bracket_count = @ - 1]
    ELSE IF c \in {SQ, DQ} /\ st.quote = None
    THEN [st EXCEPT !.ignore_matches = TRUE, !.quote = c,
                    !.start_quote = st.index + 1]
    ELSE st

\* The counters after the character c at st.index: the if/elif chain of
\* the loop body, before index is incremented.
ScanChar(st, c) ==
    IF c = "("
    THEN IF ~st.ignore_matches
         THEN [st EXCEPT !.bracket_count = @ + 1]
         ELSE IF st.backtrack_count > 0
         THEN [st EXCEPT !.backtrack_count = @ - 1]
         ELSE st
    ELSE IF c = ")"
    THEN IF \/ (st.exit_quote # -1 /\ st.quote = st.last)
            \/ (st.exit_alt_quote # -1 /\ st.alt_quote = st.last)
         THEN [st EXCEPT !.bracket_count = 0]
         ELSE IF ~st.ignore_matches
         THEN [st EXCEPT !.bracket_count = @ - 1]
         ELSE IF st.backtrack_count > 0
         THEN [st EXCEPT !.backtrack_count = @ - 1,
                         !.last_bracket =
                             IF st.backtrack_count - 1 = 0
                             THEN st.index + 1 ELSE @]
         ELSE st
    ELSE IF c \in {SQ, DQ}
    THEN IF st.quote = None
         THEN [st EXCEPT !.ignore_matches = TRUE,
                         !.backtrack_count = st.bracket_count,
                         !.bracket_count = 1,
                         !.start_quote = st.index + 1,
                         !.quote = c]
         ELSE IF c # st.quote /\ st.alt_quote = None
         THEN [st EXCEPT !.start_alt_quote = st.index + 1, !.alt_quote = c]
         ELSE IF c = st.quote
         THEN [st EXCEPT !.exit_quote = st.index + 1]
         ELSE IF st.alt_quote # None /\ c = st.alt_quote
         THEN [st EXCEPT !.exit_alt_quote = st.index + 1]
         ELSE st
    ELSE st

\* ScanClose that never splits a title off the span.
ScanCloseWhole(st, d, start_index) ==
    [st EXCEPT !.href = Slice(d, start_index, st.index - 1)]

\* href and title once the link is closed (bracket_count = 0 in the loop).
ScanClose(st, d, start_index) ==
    IF st.exit_quote >= 0 /\ st.quote = st.last
    THEN [st EXCEPT
            !.href = Slice(d, start_index, st.start_quote - 1),
            !.title = Some(Slice(d, st.start_quote, st.exit_quote - 1))]
    ELSE IF st.exit_alt_quote >= 0 /\ st.alt_quote = st.last
    THEN [st EXCEPT
            !.href = Slice(d, start_index, st.start_alt_quote - 1),
            !.title = Some(Slice(d, st.start_alt_quote,
                                 st.exit_alt_quote - 1))]
    ELSE [st EXCEPT !.href = Slice(d, start_index, st.index - 1)]

\* One iteration of the loop up to index += 1.
ScanStep(st, c) ==
    [ScanChar(st, c) EXCEPT !.index = @ + 1, !.steps = @ + 1]

\* The trace of the loop, kept for the properties: the position the
\* iteration examined, and bracket_count as the test after index += 1
\* finds it.
ScanVisit(st, pos) ==
    [st EXCEPT !.visited = Append(@, pos),
               !.depths = Append(@, st.bracket_count)]

RECURSIVE ScanLoop(_, _, _, _)

\* The rest of an iteration without the break at bracket_count == 0.
ScanNextOn(st, c, d, start_index, pos) ==
    ScanLoop([st EXCEPT !.last = IF c # SP THEN c ELSE @],
             d, start_index, pos + 1)

\* for pos in range(index, len(data)): ScanLoop is the loop from pos on,
\* ScanNext the rest of an iteration after index += 1.
ScanNext(st, c, d, start_index, pos) ==
    IF st.bracket_count = 0
    THEN ScanClose(st, d, start_index)
    ELSE ScanLoop([st EXCEPT !.last = IF c # SP THEN c ELSE @],
                  d, start_index, pos + 1)

ScanLoop(st, d, start_index, pos) ==
    IF pos >= Len(d) THEN st
    ELSE ScanNext(ScanVisit(ScanStep(st, At(d, pos)), pos),
                  At(d, pos), d, start_index, pos)

\* The fallback after the loop: the title never resolved, and the backup
\* counter is at zero.
ScanFallback(st, d, start_index) ==
    IF st.bracket_count # 0 /\ st.backtrack_count = 0
    THEN [st EXCEPT !.href = Slice(d, start_index, st.last_bracket - 1),
                    !.index = st.last_bracket,
                    !.bracket_count = 0,
                    !.fallback = TRUE]
    ELSE st

\* The title as getLink returns it.
CleanTitle(title) ==
    IF title.some
    THEN Some(RE_TITLE_CLEAN_sub(dequote(unescape(Strip(title.val)))))
    ELSE Nothing

\* What getLink returns after the scan of a bare target.  path names the
\* branch that decided the return ("angle", "loop", "fallback", "none" for a
\* target that never closed, "nomatch" for no opening paren); it and
\* last_bracket are kept for the properties and are no part of the return.
ScanReturn(st) ==
    [href |-> Strip(unescape(st.href)), title |-> CleanTitle(st.title),
     index |-> st.index, handled |-> st.bracket_count = 0,
     steps |-> st.steps, visited |-> st.visited, depths |-> st.depths,
     path |-> IF st.fallback THEN "fallback"
              ELSE IF st.bracket_count = 0 THEN "loop" ELSE "none",
     last_bracket |-> st.last_bracket]

getLinkBare(d, start_index) ==
    ScanReturn(ScanFallback(
        ScanLoop(ScanInit(start_index), d, start_index, start_index),
        d, start_index))

getLinkMatch(d, index, m) ==
    IF m.matched /\ m.group1 # <<>>
    THEN [href |-> Strip(unescape(Strip(Slice(m.group1, 1, -1)))),
          title |-> CleanTitle(IF m.group2 # <<>>
                               THEN Some(Slice(m.group2, 1, -1))
                               ELSE Nothing),
          index |-> m.end, handled |-> TRUE, steps |-> 0,
          visited |-> <<>>, depths |-> <<>>,
          path |-> "angle", last_bracket |-> -1]
    ELSE IF m.matched
    THEN getLinkBare(d, m.end)
    ELSE [href |-> <<>>, title |-> Nothing, index |-> index,
          handled |-> FALSE, steps |-> 0,
          visited |-> <<>>, depths |-> <<>>,
          path |-> "nomatch", last_bracket |-> -1]

getLink(d, index) == getLinkMatch(d, index, RE_LINK_match(d, index))

----------------------------------------------------------------------------
(* What handleMatch returns                                                *)

\* An element: its tag, its text, and its attributes as <<name, value>>
\* pairs.  A handler that returns plain text returns it under tag "#text",
\* and None is NoNode.
Element(tag, text, attrib) == [tag |-> tag, text |-> text, attrib |-> attrib]
NoNode == Element("None", <<>>, {})
Attr(node, name) == {a[2] : a \in {b \in node.attrib : b[1] = name}}

NoText == [called |-> FALSE, text |-> <<>>, index |-> -1, handled |-> FALSE]
NoLink == [called |-> FALSE, from |-> -1, href |-> <<>>, title |-> Nothing,
           index |-> -1, handled |-> FALSE, steps |-> 0,
           visited |-> <<>>, depths |-> <<>>,
           path |-> "nomatch", last_bracket |-> -1]
NoId == [called |-> FALSE, id |-> <<>>, end |-> -1, handled |-> FALSE]

\* span is <<>> for (None, None) and <<start, end>> otherwise; text, link
\* and id keep what getText, getLink and evalId returned to the handler.
Returned(proc, m, node, span, text, link, id) ==
    [proc |-> proc, m |-> m, node |-> node, span |-> span,
     text |-> text, link |-> link, id |-> id]

NoResult == Returned("none", -1, NoNode, <<>>, NoText, NoLink, NoId)

CallText(r) ==
    [called |-> TRUE, text |-> r.text, index |-> r.index,
     handled |-> r.handled]
TextCall(d, index) == CallText(getText(d, index))

CallLink(index, r) ==
    [called |-> TRUE, from |-> index, href |-> r.href,
     title |-> r.title, index |-> r.index, handled |-> r.handled,
     steps |-> r.steps, visited |-> r.visited, depths |-> r.depths,
     path |-> r.path, last_bracket |-> r.last_bracket]
LinkCall(d, index) == CallLink(index, getLink(d, index))

----------------------------------------------------------------------------
(* The patterns: where each compiled regular expression matches            *)

\* LINK_RE = NOIMG + \[ : an opening bracket not preceded by "!".
LINK_RE_matches(d, p) == At(d, p) = "[" /\ At(d, p - 1) # BANG
LINK_RE_end(p) == p + 1

\* IMAGE_LINK_RE = \!\[
IMAGE_LINK_RE_matches(d, p) == At(d, p) = BANG /\ At(d, p + 1) = "["
IMAGE_LINK_RE_end(p) == p + 2

\* ESCAPE_RE = \\(.) under DOTALL: a backslash and any one character.
ESCAPE_RE_matches(d, p) == At(d, p) = BS /\ p + 1 < Len(d)

----------------------------------------------------------------------------
(* LinkInlineProcessor.handleMatch and ImageInlineProcessor.handleMatch    *)

\* The handler once getText has handled the text: getLink returned link.
Link_makeTag(p, text, link) ==
    IF ~link.handled
    THEN Returned("link", p, NoNode, <<>>, text, link, NoId)
    ELSE Returned("link", p,
             Element("a", text.text,
                 {<<"href", link.href>>} \cup
                 (IF link.title.some
                  THEN {<<"title", link.title.val>>} ELSE {})),
             <<p, link.index>>, text, link, NoId)

Link_afterText(d, p, text) ==
    IF ~text.handled
    THEN Returned("link", p, NoNode, <<>>, text, NoLink, NoId)
    ELSE Link_makeTag(p, text, LinkCall(d, text.index))

LinkInlineProcessor_handleMatch(d, p) ==
    Link_afterText(d, p, TextCall(d, LINK_RE_end(p)))

Image_makeTag(p, text, link) ==
    IF ~link.handled
    THEN Returned("image_link", p, NoNode, <<>>, text, link, NoId)
    ELSE Returned("image_link", p,
             Element("img", <<>>,
                 {<<"src", link.href>>, <<"alt", unescape(text.text)>>}
                 \cup (IF link.title.some
                       THEN {<<"title", link.title.val>>} ELSE {})),
             <<p, link.index>>, text, link, NoId)

Image_afterText(d, p, text) ==
    IF ~text.handled
    THEN Returned("image_link", p, NoNode, <<>>, text, NoLink, NoId)
    ELSE Image_makeTag(p, text, LinkCall(d, text.index))

ImageInlineProcessor_handleMatch(d, p) ==
    Image_afterText(d, p, TextCall(d, IMAGE_LINK_RE_end(p)))

----------------------------------------------------------------------------
(* ReferenceInlineProcessor and its subclasses                             *)

\* str.lower() on the letters of the model's alphabets.
LowerChar(c) ==
    IF c = "A" THEN "a" ELSE IF c = "B" THEN "b" ELSE IF c = "X" THEN "x"
    ELSE c

\* str.lower() that leaves every character as it is.
lowerKeep(s) == s

\* str.lower()
lower(s) == [i \in 1..Len(s) |-> LowerChar(s[i])]

\* NEWLINE_CLEANUP_RE.sub(' ', id) with NEWLINE_CLEANUP_RE = \s+ : every
\* run of whitespace becomes one space.
RECURSIVE NEWLINE_CLEANUP_RE_sub(_)
NEWLINE_CLEANUP_RE_sub(s) ==
    IF s = <<>> THEN <<>>
    ELSE IF Head(s) \in Whitespace
    THEN <<SP>> \o NEWLINE_CLEANUP_RE_sub(LStrip(s))
    ELSE <<Head(s)>> \o NEWLINE_CLEANUP_RE_sub(Tail(s))

\* ReferenceInlineProcessor.RE_LINK.match(data, pos=index): at most one
\* whitespace character, an opening bracket, group 1 up to the first
\* closing bracket, and that bracket.
REF_RE_LINK_match(d, index) ==
    LET p1 == IF At(d, index) \in Whitespace THEN index + 1 ELSE index
        p2 == FindFirst(d, p1 + 1, {"]"})
    IN  IF At(d, p1) = "[" /\ At(d, p2) = "]"
        THEN [matched |-> TRUE, group1 |-> Slice(d, p1 + 1, p2),
              group2 |-> <<>>, end |-> p2 + 1]
        ELSE NoMatch

\* evalId that reports the end of [text] as the end of the form.
Reference_evalIdShort(d, index, text) ==
    LET m == REF_RE_LINK_match(d, index)
    IN  IF ~m.matched
        THEN [called |-> TRUE, id |-> <<>>, end |-> index, handled |-> FALSE]
        ELSE [called |-> TRUE,
              id |-> IF lower(m.group1) = <<>> THEN lower(text)
                     ELSE lower(m.group1),
              end |-> index, handled |-> TRUE]

\* ReferenceInlineProcessor.evalId
Reference_evalId(d, index, text) ==
    LET m == REF_RE_LINK_match(d, index)
    IN  IF ~m.matched
        THEN [called |-> TRUE, id |-> <<>>, end |-> index, handled |-> FALSE]
        ELSE [called |-> TRUE,
              id |-> IF lower(m.group1) = <<>> THEN lower(text)
                     ELSE lower(m.group1),
              end |-> m.end, handled |-> TRUE]

\* ShortReferenceInlineProcessor.evalId
ShortReference_evalId(d, index, text) ==
    [called |-> TRUE, id |-> lower(text), end |-> index, handled |-> TRUE]

\* ReferenceInlineProcessor.makeTag
Reference_makeTag(href, title, text) ==
    Element("a", text,
        {<<"href", href>>} \cup
        (IF title # <<>> THEN {<<"title", title>>} ELSE {}))

\* ImageReferenceInlineProcessor.makeTag
ImageReference_makeTag(href, title, text) ==
    Element("img", <<>>,
        {<<"src", href>>, <<"alt", unescape(text)>>} \cup
        (IF title # <<>> THEN {<<"title", title>>} ELSE {}))

\* md.references is a set of [id, href, title] with one entry per id; a
\* title of <<>> is a reference defined without a title.
RefIds(refs) == {r.id : r \in refs}
RefOf(refs, id) == CHOOSE r \in refs : r.id = id

\* ReferenceInlineProcessor.handleMatch, shared by the three processors:
\* mend is m.end(0), and kind picks the subclass's evalId and makeTag.
Reference_handleMatch(kind, d, refs, p, mend) ==
    LET text == TextCall(d, mend)
        ev   == IF kind = "short_reference"
                THEN ShortReference_evalId(d, text.index, text.text)
                ELSE Reference_evalId(d, text.index, text.text)
        id   == NEWLINE_CLEANUP_RE_sub(ev.id)
        eid  == [ev EXCEPT !.id = id]
    IN  IF ~text.handled
        THEN Returned(kind, p, NoNode, <<>>, text, NoLink, NoId)
        ELSE IF ~ev.handled
        THEN Returned(kind, p, NoNode, <<>>, text, NoLink, ev)
        ELSE IF id \notin RefIds(refs)
        THEN Returned(kind, p, NoNode, <<p, ev.end>>, text, NoLink, eid)
        ELSE LET r == RefOf(refs, id)
             IN  Returned(kind, p,
                     IF kind = "image_reference"
                     THEN ImageReference_makeTag(r.href, r.title, text.text)
                     ELSE Reference_makeTag(r.href, r.title, text.text),
                     <<p, ev.end>>, text, NoLink, eid)

----------------------------------------------------------------------------
(* EscapeInlineProcessor                                                   *)

\* util.STX and util.ETX, the two control characters of a placeholder.
STX == "STX"
ETX == "ETX"

\* ord() on the characters of the model's alphabets.
ord(c) ==
    CASE c = NL -> 10 [] c = SP -> 32 [] c = BANG -> 33 [] c = DQ -> 34
      [] c = "&" -> 38 [] c = SQ -> 39 [] c = "(" -> 40 [] c = ")" -> 41
      [] c = "*" -> 42 [] c = "." -> 46 [] c = "/" -> 47 [] c = ":" -> 58
      [] c = "<" -> 60 [] c = ">" -> 62 [] c = "@" -> 64 [] c = "[" -> 91
      [] c = BS -> 92 [] c = "]" -> 93 [] c = "_" -> 95
      [] c = "a" -> 97 [] c = "b" -> 98 [] c = "i" -> 105 [] c = "l" -> 108
      [] c = "m" -> 109 [] c = "o" -> 111 [] c = "q" -> 113
      [] c = "t" -> 116

DigitChars == <<"0", "1", "2", "3", "4", "5", "6", "7", "8", "9">>

\* '%d' % n for n >= 0: the decimal digits of n.
RECURSIVE FormatInt(_)
FormatInt(n) ==
    IF n < 10 THEN <<DigitChars[n + 1]>>
    ELSE FormatInt(n \div 10) \o <<DigitChars[(n % 10) + 1]>>

\* handleMatch that escapes the character whatever ESCAPED_CHARS holds.
EscapeInlineProcessor_handleMatchAny(d, escaped, p) ==
    Returned("escape", p,
        Element("#text", <<STX>> \o FormatInt(ord(At(d, p + 1))) \o <<ETX>>,
                {}),
        <<p, p + 2>>, NoText, NoLink, NoId)

\* EscapeInlineProcessor.handleMatch
EscapeInlineProcessor_handleMatch(d, escaped, p) ==
    LET char == At(d, p + 1)
    IN  IF char \in escaped
        THEN Returned("escape", p,
                 Element("#text", <<STX>> \o FormatInt(ord(char)) \o <<ETX>>,
                         {}),
                 <<p, p + 2>>, NoText, NoLink, NoId)
        ELSE Returned("escape", p, NoNode, <<p, p + 2>>,
                      NoText, NoLink, NoId)

----------------------------------------------------------------------------
(* AutomailInlineProcessor                                                 *)

\* AUTOMAIL_RE at p: "<", group 1 = a local part without "<", ">", space
\* or "!", an "@", a domain without "@", "<", ">" or space, then ">".  The
\* domain holds no "@", so the "@" of the match is the last one.
AUTOMAIL_RE_close(d, p) == FindFirst(d, p + 1, {"<", ">", SP})

AUTOMAIL_RE_ats(d, p) ==
    {k \in (p + 1)..(AUTOMAIL_RE_close(d, p) - 1) : At(d, k) = "@"}

AUTOMAIL_RE_matches(d, p) ==
    /\ At(d, p) = "<"
    /\ At(d, AUTOMAIL_RE_close(d, p)) = ">"
    /\ AUTOMAIL_RE_ats(d, p) # {}
    /\ LET k == CHOOSE a \in AUTOMAIL_RE_ats(d, p) :
                    \A b \in AUTOMAIL_RE_ats(d, p) : b <= a
       IN  \A i \in (p + 1)..(k - 1) : At(d, i) # BANG

AUTOMAIL_RE_group1(d, p) == Slice(d, p + 1, AUTOMAIL_RE_close(d, p))
AUTOMAIL_RE_end(d, p) == AUTOMAIL_RE_close(d, p) + 1

\* util.AMP_SUBSTITUTE
AMP_SUBSTITUTE == <<STX, "a", "m", "p", ETX>>

MAILTO == <<"m", "a", "i", "l", "t", "o", ":">>

startswith(s, prefix) ==
    Len(s) >= Len(prefix) /\ SubSeq(s, 1, Len(prefix)) = prefix

\* entities.codepoint2name.get(code): <<>> where no entity is defined.
entities_codepoint2name(code) ==
    CASE code = 34 -> <<"q", "u", "o", "t">>
      [] code = 38 -> <<"a", "m", "p">>
      [] code = 60 -> <<"l", "t">>
      [] code = 62 -> <<"g", "t">>
      [] OTHER -> <<>>

\* The nested function codepoint2name of handleMatch.
codepoint2name(code) ==
    IF entities_codepoint2name(code) # <<>>
    THEN AMP_SUBSTITUTE \o entities_codepoint2name(code) \o <<";">>
    ELSE AMP_SUBSTITUTE \o <<"#">> \o FormatInt(code) \o <<";">>

AutomailText(letter) == codepoint2name(ord(letter))
AutomailHref(letter) ==
    AMP_SUBSTITUTE \o <<"#">> \o FormatInt(ord(letter)) \o <<";">>

\* ''.join of the entity of every letter of s.
RECURSIVE JoinText(_)
JoinText(s) ==
    IF s = <<>> THEN <<>> ELSE AutomailText(Head(s)) \o JoinText(Tail(s))

RECURSIVE JoinHref(_)
JoinHref(s) ==
    IF s = <<>> THEN <<>> ELSE AutomailHref(Head(s)) \o JoinHref(Tail(s))

\* handleMatch that keeps a leading mailto: in the address.
AutomailInlineProcessor_handleMatchKeep(d, p) ==
    Returned("automail", p,
        Element("a", JoinText(unescape(AUTOMAIL_RE_group1(d, p))),
                {<<"href", JoinHref(MAILTO
                                    \o unescape(AUTOMAIL_RE_group1(d, p)))>>}),
        <<p, AUTOMAIL_RE_end(d, p)>>, NoText, NoLink, NoId)

\* AutomailInlineProcessor.handleMatch
AutomailInlineProcessor_handleMatch(d, p) ==
    LET group1 == unescape(AUTOMAIL_RE_group1(d, p))
        email  == IF startswith(group1, MAILTO)
                  THEN Slice(group1, Len(MAILTO), Len(group1))
                  ELSE group1
        mailto == MAILTO \o email
    IN  Returned("automail", p,
            Element("a", JoinText(email),
                    {<<"href", JoinHref(mailto)>>}),
            <<p, AUTOMAIL_RE_end(d, p)>>, NoText, NoLink, NoId)

----------------------------------------------------------------------------
(* build_inlinepatterns and the registry                                   *)

\* The register calls of build_inlinepatterns, in the order they are made.
Call(class, pattern, name, priority) ==
    [item |-> <<class, pattern>>, name |-> name, priority |-> priority]

DefaultPatterns == <<
    Call("BacktickInlineProcessor", "BACKTICK_RE", "backtick", 190),
    Call("EscapeInlineProcessor", "ESCAPE_RE", "escape", 180),
    Call("ReferenceInlineProcessor", "REFERENCE_RE", "reference", 170),
    Call("LinkInlineProcessor", "LINK_RE", "link", 160),
    Call("ImageInlineProcessor", "IMAGE_LINK_RE", "image_link", 150),
    Call("ImageReferenceInlineProcessor", "IMAGE_REFERENCE_RE",
         "image_reference", 140),
    Call("ShortReferenceInlineProcessor", "REFERENCE_RE",
         "short_reference", 130),
    Call("AutolinkInlineProcessor", "AUTOLINK_RE", "autolink", 120),
    Call("AutomailInlineProcessor", "AUTOMAIL_RE", "automail", 110),
    Call("SubstituteTagInlineProcessor", "LINE_BREAK_RE", "linebreak", 100),
    Call("HtmlInlineProcessor", "HTML_RE", "html", 90),
    Call("HtmlInlineProcessor", "ENTITY_RE", "entity", 80),
    Call("SimpleTextInlineProcessor", "NOT_STRONG_RE", "not_strong", 70),
    Call("DoubleTagInlineProcessor", "EM_STRONG_RE", "em_strong", 60),
    Call("DoubleTagInlineProcessor", "STRONG_EM_RE", "strong_em", 50),
    Call("SimpleTagInlineProcessor", "STRONG_RE", "strong", 40),
    Call("SimpleTagInlineProcessor", "EMPHASIS_RE", "emphasis", 30),
    Call("SimpleTagInlineProcessor", "SMART_STRONG_RE", "strong2", 20),
    Call("SimpleTagInlineProcessor", "SMART_EMPHASIS_RE", "emphasis2", 10) >>

\* util.Registry.register: the registry is kept in descending order of
\* priority, and a name already present is refused.
register(registry, entry) ==
    IF \E i \in 1..Len(registry) : registry[i].name = entry.name
    THEN registry
    ELSE LET k == Cardinality({i \in 1..Len(registry) :
                                  registry[i].priority >= entry.priority})
         IN  SubSeq(registry, 1, k) \o <<entry>>
                 \o SubSeq(registry, k + 1, Len(registry))

RECURSIVE RegisterAll(_, _)
RegisterAll(registry, calls) ==
    IF calls = <<>> THEN registry
    ELSE RegisterAll(register(registry, Head(calls)), Tail(calls))

\* build_inlinepatterns without its first register call.
build_inlinepatternsShort == RegisterAll(<<>>, Tail(DefaultPatterns))

\* build_inlinepatterns
build_inlinepatterns == RegisterAll(<<>>, DefaultPatterns)

\* The inline scanner runs the processors the registry holds.
Registered(name) ==
    \E i \in 1..Len(inlinePatterns) : inlinePatterns[i].name = name

----------------------------------------------------------------------------
(* The inputs: buffers, reference tables and escapable sets                *)

MaxTarget == 3
MaxUrl == 4
MaxTitle == 4
MaxBracket == 4
MaxText == 1
MaxId == 4
MaxEscape == 4
MaxLocal == 2

SeqsUpTo(S, n) == UNION {[1..k -> S] : k \in 0..n}

LinkAlphabet == {"(", ")", DQ, SQ, SP, NL, "a", "<", ">"}
UrlAlphabet == {"(", ")", "a", SP, "<", ">"}
TitleAlphabet == {"t", SP, NL, SQ}

\* [x](...) and ![x](...) followed by any short run of target characters.
TargetBuffers ==
    {pre \o <<"(">> \o t :
        pre \in {<<"[", "x", "]">>, <<BANG, "[", "x", "]">>},
        t \in SeqsUpTo(LinkAlphabet, MaxTarget)}

\* [x](url) with parentheses nested in url, balanced or not.
NestedBuffers ==
    {<<"[", "x", "]", "(">> \o u \o <<")">> \o rest :
        u \in SeqsUpTo(UrlAlphabet, MaxUrl), rest \in {<<>>, <<")">>}}

\* [x](href "title") with a bare or an angle-bracketed href.
Hrefs ==
    {<<>>, <<"a">>, <<"/", "a">>, <<"<", ">">>, <<"<", "a", ">">>,
     <<"<", "a", SP, "a", ">">>, <<"<", SP, "a", SP, ">">>}

TitledBuffers ==
    {<<"[", "x", "]", "(">> \o h \o <<SP, q>> \o t \o <<q, ")">> :
        h \in Hrefs, q \in {DQ, SQ}, t \in SeqsUpTo(TitleAlphabet, MaxTitle)}

\* An opening bracket and any short run of brackets and text.
BracketBuffers ==
    {<<"[">> \o t : t \in SeqsUpTo({"[", "]", "x"}, MaxBracket)}

\* [text], [text][id] and [text] [id], each also as an image.
RefBuffers ==
    {pre \o <<"[">> \o text \o <<"]">> \o rest :
        pre \in {<<>>, <<BANG>>},
        text \in SeqsUpTo({"a", "A"}, MaxText),
        rest \in {<<>>} \cup
            {sep \o <<"[">> \o id \o <<"]">> :
                sep \in {<<>>, <<SP>>, <<SP, SP>>},
                id \in SeqsUpTo({"A", SP, NL}, MaxId)}}

RefTables ==
    { {},
      { [id |-> <<"a">>, href |-> <<"/", "a">>, title |-> <<"t">>],
        [id |-> <<"a", SP, "a">>, href |-> <<"/", "b">>, title |-> <<>>] } }

EscapeBuffers == SeqsUpTo({BS, "*", "q"}, MaxEscape)

\* Markdown.ESCAPED_CHARS as the core sets it, and two other configurations.
DefaultEscaped ==
    {BS, BACKTICK, "*", "_", "{", "}", "[", "]", "(", ")", ">", "#", "+", "-",
     ".", BANG}

EscapedSets == {DefaultEscaped, {"q"}, {}}

\* <local@domain>, with no, one or two leading "mailto:".
MailBuffers ==
    {<<"<">> \o pre \o local \o <<"@">> \o domain \o <<">">> :
        pre \in {<<>>, MAILTO, MAILTO \o MAILTO},
        local \in SeqsUpTo({"a", "&", DQ, BANG, "@"}, MaxLocal),
        domain \in {<<"b">>, <<"b", ".", "b">>}}

----------------------------------------------------------------------------
(* The state machine                                                       *)

LinkBuffers ==
    TargetBuffers \cup NestedBuffers \cup TitledBuffers \cup BracketBuffers

\* The state before build_inlinepatterns has run and before any match.
Start(buffers, tables, escapable) ==
    /\ data \in buffers
    /\ references \in tables
    /\ ESCAPED_CHARS \in escapable
    /\ inlinePatterns = <<>>
    /\ result = NoResult

Init == Start(LinkBuffers, {{}}, {DefaultEscaped})
InitReference == Start(RefBuffers, RefTables, {DefaultEscaped})
InitEscape == Start(EscapeBuffers, {{}}, EscapedSets)
InitAutomail == Start(MailBuffers, {{}}, {DefaultEscaped})

Positions == 0..(Len(data) - 1)

BuildInlinePatterns ==
    /\ inlinePatterns = <<>>
    /\ inlinePatterns' = build_inlinepatterns
    /\ UNCHANGED <<data, references, ESCAPED_CHARS, result>>

Handle(name, matches, returned) ==
    /\ Registered(name)
    /\ matches
    /\ result' = returned
    /\ UNCHANGED <<data, references, ESCAPED_CHARS, inlinePatterns>>

EscapeHandleMatch(p) ==
    Handle("escape", ESCAPE_RE_matches(data, p),
           EscapeInlineProcessor_handleMatch(data, ESCAPED_CHARS, p))

ReferenceHandleMatch(p) ==
    Handle("reference", LINK_RE_matches(data, p),
           Reference_handleMatch("reference", data, references, p,
                                 LINK_RE_end(p)))

LinkHandleMatch(p) ==
    Handle("link", LINK_RE_matches(data, p),
           LinkInlineProcessor_handleMatch(data, p))

ImageHandleMatch(p) ==
    Handle("image_link", IMAGE_LINK_RE_matches(data, p),
           ImageInlineProcessor_handleMatch(data, p))

ImageReferenceHandleMatch(p) ==
    Handle("image_reference", IMAGE_LINK_RE_matches(data, p),
           Reference_handleMatch("image_reference", data, references, p,
                                 IMAGE_LINK_RE_end(p)))

ShortReferenceHandleMatch(p) ==
    Handle("short_reference", LINK_RE_matches(data, p),
           Reference_handleMatch("short_reference", data, references, p,
                                 LINK_RE_end(p)))

AutomailHandleMatch(p) ==
    Handle("automail", AUTOMAIL_RE_matches(data, p),
           AutomailInlineProcessor_handleMatch(data, p))

\* The link and image processors on the link buffers.
Next ==
    \/ BuildInlinePatterns
    \/ \E p \in Positions : LinkHandleMatch(p)
    \/ \E p \in Positions : ImageHandleMatch(p)

Spec == Init /\ [][Next]_vars

\* The three reference processors on the reference buffers.
NextReference ==
    \/ BuildInlinePatterns
    \/ \E p \in Positions : ReferenceHandleMatch(p)
    \/ \E p \in Positions : ImageReferenceHandleMatch(p)
    \/ \E p \in Positions : ShortReferenceHandleMatch(p)

SpecReference == InitReference /\ [][NextReference]_vars

\* The escape processor on the escape buffers.
NextEscape ==
    \/ BuildInlinePatterns
    \/ \E p \in Positions : EscapeHandleMatch(p)

SpecEscape == InitEscape /\ [][NextEscape]_vars

\* The automail processor on the mail buffers.
NextAutomail ==
    \/ BuildInlinePatterns
    \/ \E p \in Positions : AutomailHandleMatch(p)

SpecAutomail == InitAutomail /\ [][NextAutomail]_vars

\* The five processors that call getText, on the bracket buffers.
TextBuffers == {pre \o b : pre \in {<<>>, <<BANG>>}, b \in BracketBuffers}

InitText == Start(TextBuffers, RefTables, {DefaultEscaped})

NextText ==
    \/ BuildInlinePatterns
    \/ \E p \in Positions : LinkHandleMatch(p)
    \/ \E p \in Positions : ImageHandleMatch(p)
    \/ \E p \in Positions : ReferenceHandleMatch(p)
    \/ \E p \in Positions : ImageReferenceHandleMatch(p)
    \/ \E p \in Positions : ShortReferenceHandleMatch(p)

SpecText == InitText /\ [][NextText]_vars

----------------------------------------------------------------------------
(* Properties.  What they say of a buffer is read off the buffer itself:   *)
(* the paren that matches an opening paren by depth alone, and the parts   *)
(* H, Q and T of a target (H Q T Q).                                       *)

Quotes == {SQ, DQ}
Parens == {"(", ")"}
Chars(s) == {s[i] : i \in 1..Len(s)}

\* The position of the ")" that brings the depth, 1 after the "(" before
\* pos, back to 0; -1 if there is none.
RECURSIVE MatchingParen(_, _, _)
MatchingParen(d, pos, depth) ==
    IF pos >= Len(d) THEN -1
    ELSE IF At(d, pos) = "(" THEN MatchingParen(d, pos + 1, depth + 1)
    ELSE IF At(d, pos) = ")"
    THEN IF depth = 1 THEN pos ELSE MatchingParen(d, pos + 1, depth - 1)
    ELSE MatchingParen(d, pos + 1, depth)

\* The call of getLink the last handler made.
TheLink == result.link
LinkRan == result.proc \in {"link", "image_link"} /\ TheLink.called

\* [text](url): the "(" getLink was called at, its matching ")", and the
\* url between them, which holds no quote.
UrlClose == MatchingParen(data, TheLink.from + 1, 1)
Url == Slice(data, TheLink.from + 1, UrlClose)
WellFormedUrl ==
    /\ LinkRan
    /\ At(data, TheLink.from) = "("
    /\ UrlClose # -1
    /\ Chars(Url) \cap Quotes = {}

\* C1 as stated: for every well-formed [text](url) whose url holds no quote
\* and any number of balanced nested parentheses, getLink is handled, href
\* is exactly url, there is no title, and index is just past the matching
\* ")".
C1_HrefIsExactlyUrl ==
    WellFormedUrl =>
        /\ TheLink.handled
        /\ TheLink.href = Url
        /\ ~TheLink.title.some
        /\ TheLink.index = UrlClose + 1

\* C1 as amended: for every well-formed [text](url) whose url holds no
\* quote, any number of balanced nested parentheses, and does not begin,
\* after whitespace, with "<", getLink is handled, href is url without its
\* leading and trailing whitespace, there is no title, and index is just
\* past the matching ")".
C1_HrefIsStrippedUrl ==
    (WellFormedUrl /\ (LStrip(Url) = <<>> \/ Head(LStrip(Url)) # "<")) =>
        /\ TheLink.handled
        /\ TheLink.href = RStrip(LStrip(Url))
        /\ ~TheLink.title.some
        /\ TheLink.index = UrlClose + 1

\* A url with parentheses nested two deep has been scanned.
C1_Witness ==
    /\ WellFormedUrl
    /\ \E i \in 1..(Len(Url) - 1) : Url[i] = "(" /\ Url[i + 1] = "("
    /\ TheLink.handled
    /\ TheLink.href = Url

\* The parts of a target ( H Q T Q ) or ( <A> Q T Q ), read off the buffer.
TargetStart == TheLink.from + 1
AngleEnd == FindFirst(data, TargetStart + 1, {"<", ">"})
IsAngle == At(data, TargetStart) = "<" /\ At(data, AngleEnd) = ">"
A == Slice(data, TargetStart + 1, AngleEnd)
HEnd ==
    IF IsAngle THEN AngleEnd + 1
    ELSE FindFirst(data, TargetStart, Whitespace \cup Quotes \cup Parens)
H == Slice(data, TargetStart, HEnd)
QPos == SkipWhitespace(data, HEnd)
T == Slice(data, QPos + 1, Len(data) - 2)

\* ( H Q T Q ) closes the buffer, and T holds no quote and no parenthesis.
Titled ==
    /\ LinkRan
    /\ At(data, TheLink.from) = "("
    /\ QPos > HEnd
    /\ At(data, QPos) \in Quotes
    /\ Len(data) >= QPos + 3
    /\ At(data, Len(data) - 2) = At(data, QPos)
    /\ At(data, Len(data) - 1) = ")"
    /\ Chars(T) \cap (Quotes \cup Parens) = {}

\* ( H ) with nothing but H between the parentheses.
Untitled ==
    /\ LinkRan
    /\ At(data, TheLink.from) = "("
    /\ ~IsAngle
    /\ At(data, HEnd) = ")"

\* What a title or a href is said to become: whitespace cut from both ends,
\* and every whitespace character left inside written as one space.
RECURSIVE Trimmed(_)
Trimmed(s) ==
    IF s = <<>> THEN s
    ELSE IF s[1] \in {SP, NL, "\t"} THEN Trimmed(SubSeq(s, 2, Len(s)))
    ELSE IF s[Len(s)] \in {SP, NL, "\t"}
    THEN Trimmed(SubSeq(s, 1, Len(s) - 1))
    ELSE s

RECURSIVE Spaced(_)
Spaced(s) ==
    IF s = <<>> THEN <<>>
    ELSE <<IF s[1] \in {SP, NL, "\t"} THEN SP ELSE s[1]>>
         \o Spaced(SubSeq(s, 2, Len(s)))

\* C2 as stated: a bare target (H Q T Q) gives href H and title T, (H) gives
\* href H and no title, and the angle-bracketed (<A> Q T Q) gives as href
\* the text between the angle brackets and title T.
C2_HrefAndTitleVerbatim ==
    /\ (Titled /\ ~IsAngle) =>
          /\ TheLink.handled
          /\ TheLink.href = H
          /\ TheLink.title = Some(T)
    /\ Untitled =>
          /\ TheLink.handled
          /\ TheLink.href = H
          /\ ~TheLink.title.some
    /\ (Titled /\ IsAngle) =>
          /\ TheLink.handled
          /\ TheLink.href = A
          /\ TheLink.title = Some(T)

\* C2 as amended: a bare target (H Q T Q) gives href H and, as title, T
\* with the whitespace cut from its ends and every whitespace character
\* left in it written as a space; (H) gives href H and no title; the
\* angle-bracketed (<A> Q T Q) gives as href the text between the angle
\* brackets with the whitespace cut from its ends, and the same title.
C2_HrefAndTitleCleaned ==
    /\ (Titled /\ ~IsAngle) =>
          /\ TheLink.handled
          /\ TheLink.href = H
          /\ TheLink.title = Some(Spaced(Trimmed(T)))
    /\ Untitled =>
          /\ TheLink.handled
          /\ TheLink.href = H
          /\ ~TheLink.title.some
    /\ (Titled /\ IsAngle) =>
          /\ TheLink.handled
          /\ TheLink.href = Trimmed(A)
          /\ TheLink.title = Some(Spaced(Trimmed(T)))

\* [x](/a "t") has given href /a and title t.
C2_Witness ==
    /\ Titled
    /\ ~IsAngle
    /\ H = <<"/", "a">>
    /\ T = <<"t">>
    /\ TheLink.handled
    /\ TheLink.href = H
    /\ TheLink.title = Some(T)

\* No ")" from position pos of the buffer on.
NoParenAfter(pos) == ")" \notin Chars(Slice(data, pos, Len(data)))

\* C3: when [text] is not followed by "(", or no ")" follows the "(" so
\* that the target cannot close in any way, getLink reports not handled and
\* handleMatch returns no node and no span.
C3_UnclosedTargetDeclined ==
    (LinkRan /\ (At(data, TheLink.from) # "(" \/ NoParenAfter(TheLink.from)))
        => /\ ~TheLink.handled
           /\ result.node = NoNode
           /\ result.span = <<>>

\* C4: a result that reports a span has 0 <= start < end <= len(buffer),
\* and when getLink reports handled the end is just past a ")" of the
\* buffer.
C4_SpanMovesForward ==
    result.span # <<>> =>
        /\ 0 <= result.span[1]
        /\ result.span[1] < result.span[2]
        /\ result.span[2] <= Len(data)
        /\ (LinkRan /\ TheLink.handled) =>
              At(data, result.span[2] - 1) = ")"

\* ( H Q T Q ) closes the buffer, T holding no parenthesis and no Q.
QuotedTitle ==
    /\ LinkRan
    /\ At(data, TheLink.from) = "("
    /\ QPos > HEnd
    /\ At(data, QPos) \in Quotes
    /\ Len(data) >= QPos + 3
    /\ At(data, Len(data) - 2) = At(data, QPos)
    /\ At(data, Len(data) - 1) = ")"
    /\ Chars(T) \cap (Parens \cup {At(data, QPos)}) = {}

\* s without the quote character it both begins and ends with.
Unquoted(s) ==
    IF s # <<>> /\ s[1] \in Quotes /\ s[Len(s)] = s[1]
    THEN SubSeq(s, 2, Len(s) - 1)
    ELSE s

\* s with every run of whitespace characters written as a single space.
RECURSIVE Collapsed(_)
Collapsed(s) ==
    IF s = <<>> THEN <<>>
    ELSE IF s[1] \in {SP, NL, "\t"}
    THEN IF Len(s) > 1 /\ s[2] \in {SP, NL, "\t"}
         THEN Collapsed(SubSeq(s, 2, Len(s)))
         ELSE <<SP>> \o Collapsed(SubSeq(s, 2, Len(s)))
    ELSE <<s[1]>> \o Collapsed(SubSeq(s, 2, Len(s)))

\* C7 as stated: the title returned for ( H Q T Q ) is T with its
\* surrounding matching quote characters stripped and every run of
\* whitespace characters in it collapsed to a single space.
C7_TitleRunsCollapsed ==
    QuotedTitle =>
        /\ TheLink.title.some
        /\ TheLink.title.val = Collapsed(Unquoted(Trimmed(T)))

\* C7 as amended: the title returned for ( H Q T Q ) is T with its
\* surrounding matching quote characters stripped and every single
\* whitespace character in it replaced by a space, so that a run of n
\* whitespace characters becomes n spaces.
C7_TitleWhitespaceSpaced ==
    QuotedTitle =>
        /\ TheLink.title.some
        /\ TheLink.title.val = Spaced(Unquoted(Trimmed(T)))

\* A title with a newline next to a space has come back as two spaces.
C7_Witness ==
    /\ QuotedTitle
    /\ \E i \in 1..(Len(T) - 3) :
          /\ T[i] \notin Whitespace
          /\ {T[i + 1], T[i + 2]} = {SP, NL}
          /\ T[i + 3] \notin Whitespace
    /\ TheLink.title.some
    /\ \E i \in 1..(Len(TheLink.title.val) - 1) :
          /\ TheLink.title.val[i] = SP
          /\ TheLink.title.val[i + 1] = SP

----------------------------------------------------------------------------
(* References.  The two bracket pairs of [text][id] are read off the       *)
(* buffer; the text of these buffers holds no bracket.                     *)

RefRan ==
    /\ result.proc \in {"reference", "short_reference", "image_reference"}
    /\ result.text.handled
TextOpen == IF result.proc = "image_reference" THEN result.m + 1 ELSE result.m
TextClose == FindFirst(data, TextOpen + 1, {"[", "]"})
RefText == Slice(data, TextOpen + 1, TextClose)
IdOpen ==
    IF At(data, TextClose + 1) \in {SP, NL, "\t"}
    THEN TextClose + 2 ELSE TextClose + 1
IdClose == FindFirst(data, IdOpen + 1, {"]"})
RawId == Slice(data, IdOpen + 1, IdClose)

\* [text][id], with at most one whitespace character between the pairs.
FullForm ==
    /\ RefRan
    /\ result.proc # "short_reference"
    /\ At(data, TextClose) = "]"
    /\ At(data, IdOpen) = "["
    /\ At(data, IdClose) = "]"

\* [text] handled by the short form, whatever follows it.
ShortForm ==
    /\ RefRan
    /\ result.proc = "short_reference"
    /\ At(data, TextClose) = "]"

LowerCase(s) ==
    [i \in 1..Len(s) |->
        CASE s[i] = "A" -> "a" [] s[i] = "B" -> "b" [] s[i] = "X" -> "x"
          [] OTHER -> s[i]]

\* The id the form is looked up under, and the end of the whole form.
TheId ==
    Collapsed(LowerCase(IF FullForm /\ RawId # <<>> THEN RawId ELSE RefText))
FormEnd == IF FullForm THEN IdClose + 1 ELSE TextClose + 1
Resolved == \E r \in references : r.id = TheId

\* C5: when the id of [text][id] or of the short form [text] is not in the
\* reference table, the handler returns no node and a span that runs from
\* the start of the match to the end of the whole form, the trailing [id]
\* included.
C5_UnresolvedIdPassesThrough ==
    ((FullForm \/ ShortForm) /\ ~Resolved) =>
        /\ result.node = NoNode
        /\ result.span = <<result.m, FormEnd>>

\* [text][] with text not in the table: no node, and the span covers the
\* empty second pair too.
C5_Witness ==
    /\ FullForm
    /\ RawId = <<>>
    /\ RefText # <<>>
    /\ ~Resolved
    /\ result.node = NoNode
    /\ result.span = <<result.m, TextClose + 3>>

\* C6: the id is the content of the second bracket pair, or text when that
\* pair is empty or the form is the short one, lower-cased and with every
\* whitespace run collapsed to one space; when the table holds it, the
\* handler returns an anchor with the table's href, with the table's title
\* if it has one, and with text as its text.
C6_ReferenceResolution ==
    ((FullForm \/ ShortForm) /\ result.proc # "image_reference") =>
        /\ result.id.id = TheId
        /\ \A r \in references : r.id = TheId =>
              /\ result.node.tag = "a"
              /\ result.node.text = RefText
              /\ result.node.attrib =
                    {<<"href", r.href>>} \cup
                    (IF r.title = <<>> THEN {} ELSE {<<"title", r.title>>})
              /\ result.span = <<result.m, FormEnd>>

\* An upper-case id with a whitespace run in it has resolved.
C6_Witness ==
    /\ FullForm
    /\ result.proc = "reference"
    /\ RefText # <<>>
    /\ "A" \in Chars(RawId)
    /\ Len(RawId) > Len(TheId)
    /\ Resolved
    /\ result.node.tag = "a"
    /\ <<"href", <<"/", "b">>>> \in result.node.attrib

----------------------------------------------------------------------------
(* Escapes and automail.  Code points and entities are decoded here by     *)
(* tables of their own.                                                    *)

CodePoint(c) ==
    CASE c = BANG -> 33 [] c = DQ -> 34 [] c = "&" -> 38 [] c = "*" -> 42
      [] c = "." -> 46 [] c = ":" -> 58 [] c = "@" -> 64 [] c = BS -> 92
      [] c = "a" -> 97 [] c = "b" -> 98 [] c = "i" -> 105 [] c = "l" -> 108
      [] c = "m" -> 109 [] c = "o" -> 111 [] c = "q" -> 113
      [] c = "t" -> 116
CodedChars ==
    {BANG, DQ, "&", "*", ".", ":", "@", BS, "a", "b", "i", "l", "m", "o",
     "q", "t"}

DigitValue(c) ==
    CASE c = "0" -> 0 [] c = "1" -> 1 [] c = "2" -> 2 [] c = "3" -> 3
      [] c = "4" -> 4 [] c = "5" -> 5 [] c = "6" -> 6 [] c = "7" -> 7
      [] c = "8" -> 8 [] c = "9" -> 9 [] OTHER -> -1000

\* The number a run of decimal digits writes; negative if it is not one.
RECURSIVE Decimal(_)
Decimal(s) ==
    IF s = <<>> THEN -1000
    ELSE IF Len(s) = 1 THEN DigitValue(s[1])
    ELSE 10 * Decimal(SubSeq(s, 1, Len(s) - 1)) + DigitValue(s[Len(s)])

\* The two characters the escape handler was given.
EscapeRan == result.proc = "escape"
EscapedChar == At(data, result.m + 1)
IsMarkerOf(text, c) ==
    /\ Len(text) >= 3
    /\ text[1] = STX
    /\ text[Len(text)] = ETX
    /\ Decimal(SubSeq(text, 2, Len(text) - 1)) = CodePoint(c)
    /\ c \notin Chars(text)

\* C8 as stated: for a backslash and a character c, if c is escapable the
\* handler returns the marker (start control character, decimal code point
\* of c, end control character) and consumes both characters; otherwise it
\* returns no replacement and no consumed span.
C8_RejectConsumesNothing ==
    EscapeRan =>
        IF EscapedChar \in ESCAPED_CHARS
        THEN /\ IsMarkerOf(result.node.text, EscapedChar)
             /\ result.span = <<result.m, result.m + 2>>
        ELSE /\ result.node = NoNode
             /\ result.span = <<>>

\* C8 as amended: for a backslash and a character c, if c is escapable the
\* handler returns the marker (start control character, decimal code point
\* of c, end control character) and consumes both characters; otherwise it
\* returns no replacement, and reports the span of the backslash and the
\* character as consumed all the same.
C8_RejectConsumesBoth ==
    EscapeRan =>
        IF EscapedChar \in ESCAPED_CHARS
        THEN /\ IsMarkerOf(result.node.text, EscapedChar)
             /\ result.span = <<result.m, result.m + 2>>
        ELSE /\ result.node = NoNode
             /\ result.span = <<result.m, result.m + 2>>

\* A backslash and a star have become the marker of code point 42.
C8_Witness ==
    /\ EscapeRan
    /\ EscapedChar = "*"
    /\ "*" \in ESCAPED_CHARS
    /\ result.node.text = <<STX, "4", "2", ETX>>
    /\ result.span = <<result.m, result.m + 2>>

EntityChar(name) ==
    CASE name = <<"q", "u", "o", "t">> -> DQ
      [] name = <<"a", "m", "p">> -> "&"
      [] name = <<"l", "t">> -> "<"
      [] name = <<"g", "t">> -> ">"
      [] OTHER -> "?"

NumericChar(digits) ==
    IF \E c \in CodedChars : CodePoint(c) = Decimal(digits)
    THEN CHOOSE c \in CodedChars : CodePoint(c) = Decimal(digits)
    ELSE "?"

\* s with every obfuscation entity (the ampersand substitute, a name or
\* "#" and a decimal code point, ";") decoded back to its character.
RECURSIVE DecodeEntities(_)
DecodeEntities(s) ==
    IF s = <<>> THEN <<>>
    ELSE LET semi == FindFirst(s, 0, {";"}) + 1
             body == SubSeq(s, 6, semi - 1)
         IN  IF Len(s) < 7 \/ semi > Len(s) \/ body = <<>>
                \/ SubSeq(s, 1, 5) # <<STX, "a", "m", "p", ETX>>
             THEN <<"?">>
             ELSE <<IF body[1] = "#" THEN NumericChar(Tail(body))
                    ELSE EntityChar(body)>>
                  \o DecodeEntities(SubSeq(s, semi + 1, Len(s)))

\* The text between "<" and ">", and the address: that text with one
\* leading mailto: removed.
MailRan == result.proc = "automail"
Between == Slice(data, result.m + 1, FindFirst(data, result.m + 1, {">"}))
Prefix == <<"m", "a", "i", "l", "t", "o", ":">>
Address ==
    IF Len(Between) >= 7 /\ SubSeq(Between, 1, 7) = Prefix
    THEN SubSeq(Between, 8, Len(Between))
    ELSE Between

\* C9: for every matched <local@domain>, with or without a leading
\* mailto:, the href of the anchor decodes to mailto: followed by the
\* address with exactly one leading mailto: removed, and the text of the
\* anchor decodes to that address.
C9_AutomailRoundTrip ==
    MailRan =>
        /\ result.node.tag = "a"
        /\ \E v \in {pr[2] : pr \in result.node.attrib} :
              /\ result.node.attrib = {<<"href", v>>}
              /\ DecodeEntities(v) = Prefix \o Address
        /\ DecodeEntities(result.node.text) = Address

\* An address written with two mailto: and an ampersand has kept one
\* mailto: in its text.
C9_Witness ==
    /\ MailRan
    /\ Len(Between) > 14
    /\ SubSeq(Between, 1, 14) = Prefix \o Prefix
    /\ "&" \in Chars(Address)
    /\ DecodeEntities(result.node.text) = Address

----------------------------------------------------------------------------
(* The registry                                                            *)

DocumentedOrder ==
    <<"backtick", "escape", "reference", "link", "image_link",
      "image_reference", "short_reference", "autolink", "automail",
      "linebreak", "html", "entity", "not_strong", "em_strong", "strong_em",
      "strong", "emphasis", "strong2", "emphasis2">>

----------------------------------------------------------------------------
(* The closure of a bare target.  The two quote hypotheses are read off    *)
(* the buffer: the primary quote is the first quote character after the    *)
(* "(", the secondary quote the first quote character of the other kind    *)
(* after it, and a close of either is a later occurrence of the same       *)
(* character.                                                              *)

Lowest(S) == IF S = {} THEN -1 ELSE CHOOSE x \in S : \A y \in S : x <= y
Highest(S) == IF S = {} THEN -1 ELSE CHOOSE x \in S : \A y \in S : y <= x

\* Positions of the buffer in lo..(hi - 1).
Span(lo, hi) == {j \in Positions : lo <= j /\ j < hi}

\* For a ")" at position k: where the primary quote opens and where it last
\* closed before k, the same for the secondary quote, and the last
\* character before k that is not a space.
PrimaryOpen(k) ==
    Lowest({j \in Span(TheLink.from + 1, k) : At(data, j) \in Quotes})
PrimaryShut(k) ==
    IF PrimaryOpen(k) = -1 THEN -1
    ELSE Highest({j \in Span(PrimaryOpen(k) + 1, k) :
                     At(data, j) = At(data, PrimaryOpen(k))})
SecondaryOpen(k) ==
    IF PrimaryOpen(k) = -1 THEN -1
    ELSE Lowest({j \in Span(PrimaryOpen(k) + 1, k) :
                    /\ At(data, j) \in Quotes
                    /\ At(data, j) # At(data, PrimaryOpen(k))})
SecondaryShut(k) ==
    IF SecondaryOpen(k) = -1 THEN -1
    ELSE Highest({j \in Span(SecondaryOpen(k) + 1, k) :
                     At(data, j) = At(data, SecondaryOpen(k))})
LastBefore(k) ==
    At(data, Highest({j \in Span(TheLink.from + 1, k) :
                         At(data, j) # SP}))

PrimaryCloses(k) ==
    PrimaryShut(k) # -1 /\ LastBefore(k) = At(data, PrimaryOpen(k))
SecondaryCloses(k) ==
    SecondaryShut(k) # -1 /\ LastBefore(k) = At(data, SecondaryOpen(k))

\* A bare target was scanned: "(" is there and the angle form did not match.
BareScan ==
    /\ LinkRan
    /\ At(data, TheLink.from) = "("
    /\ TheLink.path \in {"loop", "fallback", "none"}

\* href and title as they are returned: the href without the whitespace at
\* its ends, the title cleaned.
HrefOf(lo, hi) == Trimmed(Slice(data, lo, hi))
TitleOf(lo, hi) == Some(Spaced(Unquoted(Trimmed(Slice(data, lo, hi)))))

\* A ")" that follows a closing quote of either hypothesis closes the
\* target there at the latest.
QuoteClosesAtOnce ==
    \A k \in Span(TheLink.from + 1, Len(data)) :
        (At(data, k) = ")" /\ (PrimaryCloses(k) \/ SecondaryCloses(k))) =>
            /\ TheLink.handled
            /\ TheLink.path = "loop"
            /\ TheLink.index <= k + 1

\* On closure in the scan: split at the primary quote, else at the
\* secondary quote, else the whole span and no title.
ClosureSplit ==
    TheLink.path = "loop" =>
        /\ TheLink.handled
        /\ At(data, TheLink.index - 1) = ")"
        /\ IF PrimaryCloses(TheLink.index - 1)
           THEN /\ TheLink.href =
                      HrefOf(TheLink.from + 1,
                             PrimaryOpen(TheLink.index - 1))
                /\ TheLink.title =
                      TitleOf(PrimaryOpen(TheLink.index - 1) + 1,
                              PrimaryShut(TheLink.index - 1))
           ELSE IF SecondaryCloses(TheLink.index - 1)
           THEN /\ TheLink.href =
                      HrefOf(TheLink.from + 1,
                             SecondaryOpen(TheLink.index - 1))
                /\ TheLink.title =
                      TitleOf(SecondaryOpen(TheLink.index - 1) + 1,
                              SecondaryShut(TheLink.index - 1))
           ELSE /\ TheLink.href =
                      HrefOf(TheLink.from + 1, TheLink.index - 1)
                /\ ~TheLink.title.some

\* The fallback: used only when the scan ran to the end of the buffer, and
\* then href runs up to a ")" of the buffer, there is no title, and the
\* index is just past that ")".
FallbackAtParen ==
    TheLink.path = "fallback" =>
        /\ TheLink.handled
        /\ TheLink.steps = Len(data) - SkipWhitespace(data, TheLink.from + 1)
        /\ 0 < TheLink.index
        /\ At(data, TheLink.index - 1) = ")"
        /\ TheLink.href = HrefOf(TheLink.from + 1, TheLink.index - 1)
        /\ ~TheLink.title.some

\* C11: the closure of a bare target goes by primary quote, then secondary
\* quote, then the backtrack position: a ")" after a closing quote of
\* either hypothesis closes the target at once; on closure href and title
\* are split at the primary quote if it closed last before the ")", else at
\* the secondary quote, else href is the whole span and there is no title;
\* and the fallback, used only when the scan reached the end of the buffer,
\* gives as href the text up to the ")" where the backtrack counter reached
\* zero, no title, and the index just past that ")".
C11_ClosureTieBreak ==
    BareScan => (QuoteClosesAtOnce /\ ClosureSplit /\ FallbackAtParen)

----------------------------------------------------------------------------
(* getText.  The matching bracket is found by counting, not by scanning:   *)
(* the depth after position k is 1 plus the opening brackets minus the     *)
(* closing brackets of the positions from the start up to k.               *)

TextRan == result.text.called
TextStart ==
    IF result.proc \in {"image_link", "image_reference"}
    THEN result.m + 2 ELSE result.m + 1
DepthAfter(k) ==
    1 + Cardinality({j \in Span(TextStart, k + 1) : At(data, j) = "["})
      - Cardinality({j \in Span(TextStart, k + 1) : At(data, j) = "]"})
MatchingBracket ==
    Lowest({k \in Span(TextStart, Len(data)) : DepthAfter(k) = 0})

\* C12: getText, started just after an opening "[", stops at the first
\* position where the depth, counted from 1, reaches 0: it reports handled,
\* returns the characters between the "[" and that "]" with nested pairs
\* kept, and the index just past the "]"; when the depth never reaches 0 it
\* reports not handled, and the link, image and reference handlers return
\* no node and no span.
C12_GetTextMatchesBracket ==
    TextRan =>
        IF MatchingBracket # -1
        THEN /\ result.text.handled
             /\ result.text.text = Slice(data, TextStart, MatchingBracket)
             /\ result.text.index = MatchingBracket + 1
        ELSE /\ ~result.text.handled
             /\ result.node = NoNode
             /\ result.span = <<>>

\* A text with a nested bracket pair has been returned whole.
C12_Witness ==
    /\ TextRan
    /\ result.text.handled
    /\ Len(result.text.text) >= 3
    /\ result.text.text[1] = "["
    /\ result.text.text[Len(result.text.text)] = "]"
    /\ At(data, result.text.index - 1) = "]"

----------------------------------------------------------------------------
(* The scan of a bare target as a single pass                              *)

\* Where the scan starts: the first character after the "(" and the
\* whitespace that follows it.
ScanStart == SkipWhitespace(data, TheLink.from + 1)

\* C13: the scan of a bare target is one pass from left to right: the
\* positions it examines are consecutive from the first character after
\* the "(", each examined once, it stops at the first position where the
\* depth reaches 0 and nowhere before the end of the buffer otherwise, and
\* its steps are at most the length of the remaining buffer.
C13_SinglePassScan ==
    BareScan =>
        /\ Len(TheLink.visited) = TheLink.steps
        /\ Len(TheLink.depths) = TheLink.steps
        /\ \A i \in 1..TheLink.steps :
              TheLink.visited[i] = ScanStart + i - 1
        /\ \A i, j \in 1..TheLink.steps :
              i # j => TheLink.visited[i] # TheLink.visited[j]
        /\ TheLink.steps <= Len(data) - ScanStart
        /\ \A i \in 1..(TheLink.steps - 1) : TheLink.depths[i] # 0
        /\ TheLink.steps < Len(data) - ScanStart =>
              TheLink.depths[TheLink.steps] = 0

\* A quote hypothesis has failed: the scan ran on to the end of the
\* buffer, one step for each position, and the fallback was used.
C13_Witness ==
    /\ BareScan
    /\ TheLink.path = "fallback"
    /\ TheLink.last_bracket # -1
    /\ TheLink.steps >= 3
    /\ TheLink.steps = Len(data) - ScanStart
    /\ Len(TheLink.visited) = TheLink.steps

====
